---- MODULE Spec2Model ----
(***************************************************************************)
(* Model of EmojiKitchenPlugin (src/main.py): the hex encoder, the        *)
(* candidate URL generation, the sequential HEAD probing, and the two     *)
(* message handlers.                                                      *)
(*                                                                         *)
(* A Python str is a sequence of code points, so every string of the      *)
(* program (messages, emoji clusters, hex identifiers, revisions, URLs)   *)
(* is a sequence of integers here; 'a' is 97, '-' is 45, U+1F600 is       *)
(* 128512.  Optional[str] is a record [some, val].                        *)
(***************************************************************************)
EXTENDS Integers, Sequences, FiniteSets, TLC

VARIABLES enc, config, event, pc, mix, probe

vars == <<enc, config, event, pc, mix, probe>>

(***************************************************************************)
(* Bounds of the model.                                                    *)
(***************************************************************************)
\* longest cluster handed to the encoder in SpecEncoder
MaxClusterLen == 3
\* longest message body, in tokens (space, letter, or one emoji)
MaxTokens == 4
\* longest configured revision list
MaxRevs == 2

(***************************************************************************)
(* Python values.                                                          *)
(***************************************************************************)
None == [some |-> FALSE, val |-> <<>>]

Some(s) == [some |-> TRUE, val |-> s]

\* Python truthiness of an Optional[str]: None and "" are falsy
Truthy(o) == o.some /\ o.val # <<>>

\* str.__gt__: lexicographic by code point, a proper prefix is smaller
RECURSIVE StrGT(_, _)
StrGT(a, b) ==
    IF a = <<>> THEN FALSE
    ELSE IF b = <<>> THEN TRUE
    ELSE IF Head(a) # Head(b) THEN Head(a) > Head(b)
    ELSE StrGT(Tail(a), Tail(b))

\* whether c occurs in s
Contains(s, c) == \E k \in 1..Len(s) : s[k] = c

\* str.index(c) for a one-character c, 1-based (the code's index is this - 1)
Index(s, c) == CHOOSE k \in 1..Len(s) : s[k] = c /\ \A j \in 1..(k - 1) : s[j] # c

\* one lowercase hex digit as a character: '0'..'9' are 48..57, 'a'..'f' 97..102
HexDigit(d) == IF d < 10 THEN 48 + d ELSE 87 + d

\* f'{n:x}'
RECURSIVE Hex(_)
Hex(n) == IF n < 16 THEN <<HexDigit(n)>> ELSE Hex(n \div 16) \o <<HexDigit(n % 16)>>

\* '-'.join(codes)
RECURSIVE Join(_)
Join(codes) ==
    IF codes = <<>> THEN <<>>
    ELSE IF Len(codes) = 1 THEN codes[1]
    ELSE codes[1] \o <<45>> \o Join(Tail(codes))

(***************************************************************************)
(* _get_emoji_hex_code.  The for loop iterates over the string object the *)
(* argument named when the loop started (arg, position i); the name       *)
(* emoji_char is rebound inside the loop and is what index() and len()    *)
(* read.                                                                   *)
(***************************************************************************)
\* the strings the filter of line 55 drops: '200d' and 'fe0f'
FilteredOut == {<<50, 48, 48, 100>>, <<102, 101, 48, 102>>}

IsHighSurrogate(c) == 55296 <= c /\ c <= 56319

IsLowSurrogate(c) == 56320 <= c /\ c <= 57343

\* the condition of line 43, for the loop variable char and the current emoji_char
IsSurrogatePairAt(cur, char) ==
    /\ IsHighSurrogate(char)
    /\ Len(cur) > Index(cur, char)
    /\ IsLowSurrogate(cur[Index(cur, char) + 1])

\* line 45
CodePointOfPair(cur, char) ==
    ((char - 55296) * 1024) + (cur[Index(cur, char) + 1] - 56320) + 65536

\* line 48: emoji_char[emoji_char.index(char) + 1:]
RebindEmojiChar(cur, char) == SubSeq(cur, Index(cur, char) + 1, Len(cur))

\* line 43 raises ValueError when index() does not find char; caught at line 64
IndexRaises(cur, char) == IsHighSurrogate(char) /\ ~Contains(cur, char)

\* one iteration of the loop of lines 41-50 on the loop state st
LoopBody(st) ==
    LET char == st.arg[st.i] IN
    IF IndexRaises(st.emoji_char, char)
    THEN [st EXCEPT !.pc = "returned", !.ret = None]
    ELSE IF IsSurrogatePairAt(st.emoji_char, char)
    THEN [st EXCEPT !.i = @ + 1,
                    !.hex_codes = Append(@, Hex(CodePointOfPair(st.emoji_char, char))),
                    !.emoji_char = RebindEmojiChar(st.emoji_char, char)]
    ELSE [st EXCEPT !.i = @ + 1, !.hex_codes = Append(@, Hex(char))]

\* a variant of the filter of line 55 that forgets the variation selector
KeepAllButZwj(code) == code # <<50, 48, 48, 100>>

KeepCode(code) == code \notin FilteredOut

\* lines 55-62
LoopExit(st) ==
    LET filtered_hex_codes == SelectSeq(st.hex_codes, KeepCode) IN
    [st EXCEPT !.pc = "returned",
               !.ret = IF filtered_hex_codes = <<>> THEN None
                       ELSE Some(Join(filtered_hex_codes))]

EncStart(emoji_char) ==
    [arg |-> emoji_char, i |-> 1, emoji_char |-> emoji_char, hex_codes |-> <<>>,
     pc |-> "loop", ret |-> None]

RECURSIVE EncRun(_)
EncRun(st) ==
    IF st.pc = "returned" THEN st.ret
    ELSE IF st.i > Len(st.arg) THEN EncRun(LoopExit(st))
    ELSE EncRun(LoopBody(st))

\* the whole call
GetEmojiHexCode(emoji_char) == EncRun(EncStart(emoji_char))

(***************************************************************************)
(* The encoder on its own: every cluster over EncAlphabet, one loop       *)
(* iteration per step.                                                     *)
(***************************************************************************)
\* U+1F600, U+2764, U+200D, U+FE0F, and the UTF-16 surrogates D83D DE00 of U+1F600
EncAlphabet == {128512, 10084, 8205, 65039, 55357, 56832}

RECURSIVE SeqsUpTo(_, _)
SeqsUpTo(S, n) ==
    IF n = 0 THEN {<<>>}
    ELSE LET shorter == SeqsUpTo(S, n - 1) IN
         shorter \cup {Append(s, c) : s \in shorter, c \in S}

Clusters == SeqsUpTo(EncAlphabet, MaxClusterLen) \ {<<>>}

EncIdle == [arg |-> <<>>, i |-> 1, emoji_char |-> <<>>, hex_codes |-> <<>>,
            pc |-> "idle", ret |-> None]

EncInLoop == enc.pc = "loop" /\ enc.i <= Len(enc.arg)

EncTakesPair ==
    /\ ~IndexRaises(enc.emoji_char, enc.arg[enc.i])
    /\ IsSurrogatePairAt(enc.emoji_char, enc.arg[enc.i])

\* lines 43-48
EncPairStep ==
    /\ EncInLoop
    /\ EncTakesPair
    /\ enc' = LoopBody(enc)
    /\ UNCHANGED <<config, event, pc, mix, probe>>

\* lines 49-50
EncPlainStep ==
    /\ EncInLoop
    /\ ~EncTakesPair
    /\ enc' = LoopBody(enc)
    /\ UNCHANGED <<config, event, pc, mix, probe>>

\* lines 55-62
EncReturn ==
    /\ enc.pc = "loop"
    /\ enc.i > Len(enc.arg)
    /\ enc' = LoopExit(enc)
    /\ UNCHANGED <<config, event, pc, mix, probe>>

(***************************************************************************)
(* Configuration (__init__, lines 18-23).  The plugin reads three keys;   *)
(* any other key of the configuration object, such as an auto-trigger     *)
(* flag, is carried but never read.                                        *)
(***************************************************************************)
\* DEFAULT_DATE_CODES, line 13
DEFAULT_DATE_CODES ==
    << <<50, 48, 50, 52, 48, 51, 49, 53>>,   \* 20240315
       <<50, 48, 50, 51, 49, 49, 49, 53>>,   \* 20231115
       <<50, 48, 50, 51, 48, 52, 48, 53>>,   \* 20230405
       <<50, 48, 50, 50, 49, 49, 49, 53>>,   \* 20221115
       <<50, 48, 50, 50, 48, 49, 49, 48>>,   \* 20220110
       <<50, 48, 50, 49, 48, 56, 51, 49>>,   \* 20210831
       <<50, 48, 50, 48, 49, 48, 48, 49>> >> \* 20201001

Lit(text) == [kind |-> "lit", text |-> text, key |-> ""]

Field(key) == [kind |-> "key", text |-> <<>>, key |-> key]

\* a positional replacement field, {} or {0}
Positional == [kind |-> "pos", text |-> <<>>, key |-> ""]

\* "https://www.gstatic.com/android/keyboard/emojikitchen/"
UrlHead ==
    <<104, 116, 116, 112, 115, 58, 47, 47, 119, 119, 119, 46, 103, 115, 116, 97,
      116, 105, 99, 46, 99, 111, 109, 47, 97, 110, 100, 114, 111, 105, 100, 47,
      107, 101, 121, 98, 111, 97, 114, 100, 47, 101, 109, 111, 106, 105, 107,
      105, 116, 99, 104, 101, 110, 47>>

\* the template with its first field named name:
\* UrlHead {name} "/u" {hex1} "/u" {hex1} "_u" {hex2} ".png"
TemplateWith(first) ==
    <<Lit(UrlHead), first, Lit(<<47, 117>>), Field("hex1"), Lit(<<47, 117>>),
      Field("hex1"), Lit(<<95, 117>>), Field("hex2"), Lit(<<46, 112, 110, 103>>)>>

\* DEFAULT_BASE_URL_TEMPLATE, line 14
DEFAULT_BASE_URL_TEMPLATE == TemplateWith(Field("date_code"))

\* configured templates: the default, one that names the revision {revision}
\* (a key format() is not given), and one with a positional field
Templates ==
    {DEFAULT_BASE_URL_TEMPLATE, TemplateWith(Field("revision")), TemplateWith(Positional)}

Configs ==
    [date_codes : {SubSeq(DEFAULT_DATE_CODES, 1, n) : n \in 0..MaxRevs},
     base_url_template : Templates,
     auto_trigger : BOOLEAN]

(***************************************************************************)
(* str.format(date_code=…, hex1=…, hex2=…) on a parsed template: fields   *)
(* are substituted left to right; an unknown key raises KeyError, a       *)
(* positional field IndexError (no positional arguments are passed).      *)
(***************************************************************************)
RECURSIVE FormatFrom(_, _, _, _)
FormatFrom(template, k, kwargs, acc) ==
    IF k > Len(template) THEN [exc |-> "none", val |-> acc]
    ELSE LET part == template[k] IN
         IF part.kind = "lit" THEN FormatFrom(template, k + 1, kwargs, acc \o part.text)
         ELSE IF part.kind = "pos" THEN [exc |-> "IndexError", val |-> <<>>]
         ELSE IF part.key \notin DOMAIN kwargs THEN [exc |-> "KeyError", val |-> <<>>]
         ELSE FormatFrom(template, k + 1, kwargs, acc \o kwargs[part.key])

Format(template, kwargs) == FormatFrom(template, 1, kwargs, <<>>)

(***************************************************************************)
(* _find_emoji_kitchen_url_async, lines 79-92: the candidate list.        *)
(***************************************************************************)
\* a variant of lines 83-88: both orders for distinct identifiers
BothOrders(hex1, hex2) == IF hex1 = hex2 THEN << <<hex1, hex2>> >>
                          ELSE << <<hex1, hex2>>, <<hex2, hex1>> >>

\* lines 83-88: the (hex1, hex2) keyword pairs formatted for one revision
OrdersForRevision(hex1, hex2) ==
    IF StrGT(hex1, hex2) /\ hex1 # hex2 THEN << <<hex2, hex1>> >>
    ELSE << <<hex1, hex2>> >>

\* line 84 / 87
FormatUrl(template, date_code, pair) ==
    Format(template, [date_code |-> date_code, hex1 |-> pair[1], hex2 |-> pair[2]])

\* the loop of lines 80-92 from revision k on: the list built, or the
\* exception that ended the loop
RECURSIVE BuildUrlsFrom(_, _, _, _, _)
BuildUrlsFrom(template, date_codes, k, orders, acc) ==
    IF k > Len(date_codes) THEN [exc |-> "none", urls |-> acc]
    ELSE LET made == [j \in 1..Len(orders) |-> FormatUrl(template, date_codes[k], orders[j])]
             bad == {j \in 1..Len(orders) : made[j].exc # "none"}
         IN  IF bad # {}
             THEN [exc |-> made[CHOOSE j \in bad : \A h \in bad : j <= h].exc, urls |-> acc]
             ELSE BuildUrlsFrom(template, date_codes, k + 1, orders,
                                acc \o [j \in 1..Len(orders) |-> made[j].val])

BuildUrls(template, date_codes, hex1, hex2) ==
    BuildUrlsFrom(template, date_codes, 1, OrdersForRevision(hex1, hex2), <<>>)

(***************************************************************************)
(* Message text.  A body is a run of tokens: a space, the letter h, or    *)
(* one emoji; emoji.emoji_list scans left to right and takes the longest  *)
(* entry of the emoji table that matches at each position.                *)
(***************************************************************************)
\* the emoji table restricted to three entries: U+1F600, U+2764, U+2764 U+FE0F
EMOJI_DATA == {<<128512>>, <<10084>>, <<10084, 65039>>}

Tokens == {<<32>>, <<104>>} \cup EMOJI_DATA

RECURSIVE Flatten(_)
Flatten(ss) == IF ss = <<>> THEN <<>> ELSE Head(ss) \o Flatten(Tail(ss))

Bodies == {Flatten(ts) : ts \in SeqsUpTo(Tokens, MaxTokens)}

\* the characters str.strip() removes, among those of the model: ASCII whitespace
IsSpace(c) == c \in {9, 10, 11, 12, 13, 32}

RECURSIVE LStrip(_)
LStrip(s) == IF s # <<>> /\ IsSpace(Head(s)) THEN LStrip(Tail(s)) ELSE s

RECURSIVE RStrip(_)
RStrip(s) ==
    IF s # <<>> /\ IsSpace(s[Len(s)]) THEN RStrip(SubSeq(s, 1, Len(s) - 1)) ELSE s

\* str.strip()
Strip(s) == RStrip(LStrip(s))

\* whether sub occurs in s at position k
MatchesAt(s, k, sub) == k + Len(sub) - 1 <= Len(s) /\ SubSeq(s, k, k + Len(sub) - 1) = sub

\* str.startswith
StartsWith(s, prefix) == MatchesAt(s, 1, prefix)

\* str.replace(sub, '', 1) for a non-empty sub
RemoveFirst(s, sub) ==
    LET at == {k \in 1..Len(s) : MatchesAt(s, k, sub)} IN
    IF at = {} THEN s
    ELSE LET k == CHOOSE k \in at : \A h \in at : k <= h IN
         SubSeq(s, 1, k - 1) \o SubSeq(s, k + Len(sub), Len(s))

\* _extract_emojis_from_text, lines 109-113
RECURSIVE ExtractFrom(_, _)
ExtractFrom(text, k) ==
    IF k > Len(text) THEN <<>>
    ELSE LET hits == {e \in EMOJI_DATA : MatchesAt(text, k, e)} IN
         IF hits = {} THEN ExtractFrom(text, k + 1)
         ELSE LET e == CHOOSE e \in hits : \A f \in hits : Len(f) <= Len(e) IN
              <<e>> \o ExtractFrom(text, k + Len(e))

ExtractEmojisFromText(text) == ExtractFrom(text, 1)

\* lines 175-178 and 217-220: the text with each extracted emoji removed once
RECURSIVE RemainingText(_, _)
RemainingText(text, emojis) ==
    IF emojis = <<>> THEN text
    ELSE RemainingText(RemoveFirst(text, Head(emojis)), Tail(emojis))

\* the command names of line 142, each with its slash:
\* "/mixemoji", "/合成emoji", "/emojimix"
CommandPrefixes ==
    << <<47, 109, 105, 120, 101, 109, 111, 106, 105>>,
       <<47, 21512, 25104, 101, 109, 111, 106, 105>>,
       <<47, 101, 109, 111, 106, 105, 109, 105, 120>> >>

\* lines 138-146: strip, then drop the first command name the text starts with
CommandArgument(message_str) ==
    LET input_text == Strip(message_str)
        found == {k \in 1..Len(CommandPrefixes) : StartsWith(input_text, CommandPrefixes[k])}
    IN  IF found = {} THEN input_text
        ELSE LET k == CHOOSE k \in found : \A h \in found : k <= h IN
             Strip(SubSeq(input_text, Len(CommandPrefixes[k]) + 1, Len(input_text)))

\* what a command message may start with in the model: nothing, or "/mixemoji"
SentPrefixes == {<<>>, CommandPrefixes[1]}

(***************************************************************************)
(* Results a handler yields to the host.                                   *)
(***************************************************************************)
\* event.plain_result(...): tag names the text sent
Plain(tag) == [kind |-> "plain", tag |-> tag, url |-> <<>>]

\* event.chain_result([Comp.Image.fromURL(url)])
Image(url) == [kind |-> "image", tag |-> "found", url |-> url]

NoEvent ==
    [handler |-> "none", message_str |-> <<>>, input_text |-> <<>>, emojis |-> <<>>,
     results |-> <<>>, stopped |-> FALSE]

NoMix ==
    [called |-> FALSE, emoji1 |-> <<>>, emoji2 |-> <<>>, hex1 |-> None, hex2 |-> None,
     urls_to_check |-> <<>>, returned |-> FALSE, result_url |-> None,
     raised |-> "none", escaped |-> FALSE, log |-> <<>>]

NoProbe == [idx |-> 1, history |-> <<>>]

(***************************************************************************)
(* _process_and_send_mix (lines 116-132) around                            *)
(* _find_emoji_kitchen_url_async (lines 68-106).                           *)
(***************************************************************************)
\* a variant of line 121: except KeyError
CatchesOnlyKeyError(exc) == exc = "KeyError"

\* line 121: except Exception catches every exception class of the model
CaughtAtLine121(exc) == exc \in {"KeyError", "IndexError", "RuntimeError"}

\* lines 120-123: result_url once _find has ended by raising exc
AfterRaise(m, exc) ==
    IF CaughtAtLine121(exc)
    THEN [m EXCEPT !.returned = TRUE, !.result_url = None, !.raised = exc,
                   !.log = Append(@, "error:unexpected")]
    ELSE [m EXCEPT !.raised = exc, !.escaped = TRUE]

\* a variant of lines 90-92: no except clause, the KeyError leaves _find
PropagateKeyError(m) == AfterRaise(m, "KeyError")

\* lines 90-92: the KeyError is logged as an error and _find returns None
OnTemplateKeyError(m) ==
    [m EXCEPT !.returned = TRUE, !.raised = "KeyError", !.log = Append(@, "error:template")]

\* lines 69-92: _find up to its first request, or to its return
FindStart(cfg, emoji1, emoji2) ==
    LET hex1 == GetEmojiHexCode(emoji1)
        hex2 == GetEmojiHexCode(emoji2)
        m == [NoMix EXCEPT !.called = TRUE, !.emoji1 = emoji1, !.emoji2 = emoji2,
                           !.hex1 = hex1, !.hex2 = hex2]
    IN  IF ~Truthy(hex1) \/ ~Truthy(hex2)
        THEN [m EXCEPT !.returned = TRUE, !.log = <<"warning:no-hex">>]
        ELSE LET built == BuildUrls(cfg.base_url_template, cfg.date_codes, hex1.val, hex2.val) IN
             IF built.exc = "KeyError" THEN OnTemplateKeyError(m)
             ELSE IF built.exc # "none" THEN AfterRaise(m, built.exc)
             ELSE IF built.urls = <<>> THEN [m EXCEPT !.returned = TRUE]
             ELSE [m EXCEPT !.urls_to_check = built.urls]

\* lines 125-132: what is yielded for result_url
MixResult(result_url) ==
    IF Truthy(result_url) THEN Image(result_url.val) ELSE Plain("not-found")

\* the event once the resolution m has ended: the result is yielded, then the
\* calling handler stops the event (line 201 / 232); nothing is yielded when
\* the exception escaped
EventAfterMix(ev, m) ==
    IF m.escaped THEN ev
    ELSE [ev EXCEPT !.results = Append(@, MixResult(m.result_url)), !.stopped = TRUE]

(***************************************************************************)
(* The handlers.  Each action runs a handler from its start (or from the  *)
(* answer to its pending request) to its next request or its end.         *)
(***************************************************************************)
\* a handler ends having yielded result tag
ReplyAndEnd(ev, tag, stop) ==
    /\ event' = [ev EXCEPT !.results = Append(@, Plain(tag)), !.stopped = stop]
    /\ pc' = "done"
    /\ UNCHANGED <<mix, probe>>

\* a handler ends having yielded nothing
EndSilently(ev) ==
    /\ event' = ev
    /\ pc' = "done"
    /\ UNCHANGED <<mix, probe>>

\* a handler enters _process_and_send_mix (line 184 / 229)
StartMix(ev, emoji1, emoji2) ==
    LET m == FindStart(config, emoji1, emoji2) IN
    /\ mix' = m
    /\ probe' = NoProbe
    /\ IF m.returned \/ m.escaped
       THEN event' = EventAfterMix(ev, m) /\ pc' = "done"
       ELSE event' = ev /\ pc' = "probing"

\* a variant of the validation: extraneous text is looked for whatever the count
CommandStatusTextFirst(input_text, emojis) ==
    IF input_text = <<>> THEN "no-arguments"
    ELSE IF emojis # <<>> /\ Strip(RemainingText(input_text, emojis)) # <<>>
    THEN "extraneous-text"
    ELSE IF Len(emojis) = 2 THEN "mix"
    ELSE IF Len(emojis) = 1 THEN "need-two-emoji"
    ELSE IF Len(emojis) > 2 THEN "too-many-emoji"
    ELSE "no-emoji"

\* lines 160-198: what the command does with its argument text; "mix" is the
\* call of line 184, every other value the text of a plain result
CommandStatus(input_text, emojis) ==
    IF input_text = <<>> THEN "no-arguments"
    ELSE IF Len(emojis) = 2
    THEN IF Strip(RemainingText(input_text, emojis)) = <<>> THEN "mix"
         ELSE "extraneous-text"
    ELSE IF Len(emojis) = 1 THEN "need-two-emoji"
    ELSE IF Len(emojis) > 2 THEN "too-many-emoji"
    ELSE "no-emoji"

\* lines 160-201 for the argument text
CommandBody(ev) ==
    LET status == CommandStatus(ev.input_text, ev.emojis) IN
    IF status = "mix" THEN StartMix(ev, ev.emojis[1], ev.emojis[2])
    ELSE ReplyAndEnd(ev, status, TRUE)

\* mix_emoji_command, lines 135-201
MixEmojiCommand ==
    /\ pc = "idle"
    /\ \E prefix \in SentPrefixes, body \in Bodies :
         LET message_str == prefix \o body
             input_text == CommandArgument(message_str)
         IN  CommandBody([NoEvent EXCEPT !.handler = "command",
                                         !.message_str = message_str,
                                         !.input_text = input_text,
                                         !.emojis = ExtractEmojisFromText(input_text)])
    /\ UNCHANGED <<enc, config>>

\* a variant of the automatic handler: one that honours an auto_trigger key
AutoTriggerIfEnabled(cfg) == cfg.auto_trigger

\* whether handle_double_emoji_message goes on for configuration cfg: the
\* handler reads no key of the configuration
AutoTriggerRuns(cfg) == TRUE

\* lines 207-234 for the stripped message text
MessageBody(ev) ==
    LET emojis == ev.emojis IN
    IF ~AutoTriggerRuns(config) \/ ev.input_text = <<>> THEN EndSilently(ev)
    ELSE IF Len(emojis) = 2 /\ Strip(RemainingText(ev.input_text, emojis)) = <<>>
    THEN StartMix(ev, emojis[1], emojis[2])
    ELSE EndSilently(ev)

\* handle_double_emoji_message, lines 204-234
HandleDoubleEmojiMessage ==
    /\ pc = "idle"
    /\ \E body \in Bodies :
         LET message_text == Strip(body) IN
         MessageBody([NoEvent EXCEPT !.handler = "message",
                                     !.message_str = body,
                                     !.input_text = message_text,
                                     !.emojis = ExtractEmojisFromText(message_text)])
    /\ UNCHANGED <<enc, config>>

(***************************************************************************)
(* The probing loop, lines 94-106: one HEAD request per step.              *)
(***************************************************************************)
\* the statuses the catalog answers with in the model
HeadStatuses == {200, 404, 500}

\* a variant of line 97: anything but 404 counts as found
IsNot404(status) == status # 404

\* line 97
IsHit(status) == status = 200

\* a variant of the loop: the same candidate again
SameCandidate(idx) == idx

\* the for loop of line 94 moves on
NextCandidate(idx) == idx + 1

Probing == pc = "probing" /\ probe.idx <= Len(mix.urls_to_check)

\* the request made is recorded: outcome is "response" with the status
\* answered, or the exception raised, with status 0
Checked(outcome, status) ==
    Append(probe.history, [idx |-> probe.idx, outcome |-> outcome, status |-> status])

\* _find has ended with mix' set: _process_and_send_mix yields and the handler ends
FinishMix ==
    /\ event' = EventAfterMix(event, mix')
    /\ pc' = "done"

\* the candidate did not answer 200: next candidate, or lines 105-106
Continue(outcome, status, logged) ==
    /\ probe' = [idx |-> NextCandidate(probe.idx), history |-> Checked(outcome, status)]
    /\ IF probe'.idx > Len(mix.urls_to_check)
       THEN /\ mix' = [mix EXCEPT !.returned = TRUE, !.log = @ \o logged]
            /\ FinishMix
       ELSE /\ mix' = [mix EXCEPT !.log = @ \o logged]
            /\ UNCHANGED <<event, pc>>

\* lines 96-99
ProbeFound ==
    /\ Probing
    /\ \E status \in HeadStatuses :
         /\ IsHit(status)
         /\ probe' = [probe EXCEPT !.history = Checked("response", status)]
         /\ mix' = [mix EXCEPT !.returned = TRUE,
                               !.result_url = Some(mix.urls_to_check[probe.idx])]
         /\ FinishMix
    /\ UNCHANGED <<enc, config>>

\* line 97 false: the with block ends and the loop goes on
ProbeNotFound ==
    /\ Probing
    /\ \E status \in HeadStatuses :
         /\ ~IsHit(status)
         /\ Continue("response", status, <<>>)
    /\ UNCHANGED <<enc, config>>

\* lines 100-101
ProbeTimeout ==
    /\ Probing
    /\ Continue("TimeoutError", 0, <<"warning:timeout">>)
    /\ UNCHANGED <<enc, config>>

\* lines 102-103
ProbeClientError ==
    /\ Probing
    /\ Continue("ClientError", 0, <<"warning:network">>)
    /\ UNCHANGED <<enc, config>>

\* any other exception leaves _find and reaches line 121
ProbeUnexpected ==
    /\ Probing
    /\ probe' = [probe EXCEPT !.history = Checked("RuntimeError", 0)]
    /\ mix' = AfterRaise(mix, "RuntimeError")
    /\ FinishMix
    /\ UNCHANGED <<enc, config>>

(***************************************************************************)
(* Specifications.                                                         *)
(***************************************************************************)
Init ==
    /\ config \in Configs
    /\ enc = EncIdle
    /\ event = NoEvent
    /\ pc = "idle"
    /\ mix = NoMix
    /\ probe = NoProbe

Next ==
    \/ MixEmojiCommand
    \/ HandleDoubleEmojiMessage
    \/ ProbeFound
    \/ ProbeNotFound
    \/ ProbeTimeout
    \/ ProbeClientError
    \/ ProbeUnexpected

Spec == Init /\ [][Next]_vars

DefaultConfig ==
    [date_codes |-> DEFAULT_DATE_CODES, base_url_template |-> DEFAULT_BASE_URL_TEMPLATE,
     auto_trigger |-> TRUE]

InitEncoder ==
    /\ enc \in {EncStart(c) : c \in Clusters}
    /\ config = DefaultConfig
    /\ event = NoEvent
    /\ pc = "idle"
    /\ mix = NoMix
    /\ probe = NoProbe

NextEncoder == EncPairStep \/ EncPlainStep \/ EncReturn

SpecEncoder == InitEncoder /\ [][NextEncoder]_vars

(***************************************************************************)
(* Properties of the encoder, under SpecEncoder.                           *)
(***************************************************************************)
\* the segments of an identifier: the pieces between '-' characters
RECURSIVE Split(_)
Split(s) ==
    IF ~Contains(s, 45) THEN <<s>>
    ELSE <<SubSeq(s, 1, Index(s, 45) - 1)>> \o Split(SubSeq(s, Index(s, 45) + 1, Len(s)))

\* the number a segment denotes when read as lowercase hex without a leading
\* zero, and -1 when it is not such a numeral
RECURSIVE HexValueFrom(_, _)
HexValueFrom(seg, acc) ==
    IF seg = <<>> THEN acc
    ELSE LET c == Head(seg) IN
         IF 48 <= c /\ c <= 57 THEN HexValueFrom(Tail(seg), 16 * acc + (c - 48))
         ELSE IF 97 <= c /\ c <= 102 THEN HexValueFrom(Tail(seg), 16 * acc + (c - 87))
         ELSE -1

HexValue(seg) ==
    IF seg = <<>> \/ (Len(seg) > 1 /\ seg[1] = 48) THEN -1 ELSE HexValueFrom(seg, 0)

SegmentValues(identifier) ==
    [k \in 1..Len(Split(identifier)) |-> HexValue(Split(identifier)[k])]

IsSurrogate(c) == 55296 <= c /\ c <= 57343

\* neither U+200D nor U+FE0F
IsSignificant(c) == c \notin {8205, 65039}

EncReturned == enc.pc = "returned"

\* the cluster holds one surrogate pair, at k and k + 1, and nowhere else a
\* surrogate or the code point the pair stands for
OnePairAt(cluster, k) ==
    /\ k + 1 <= Len(cluster)
    /\ 55296 <= cluster[k] /\ cluster[k] <= 56319
    /\ 56320 <= cluster[k + 1] /\ cluster[k + 1] <= 57343
    /\ \A j \in (1..Len(cluster)) \ {k, k + 1} :
         /\ ~IsSurrogate(cluster[j])
         /\ cluster[j] # (cluster[k] - 55296) * 1024 + (cluster[k + 1] - 56320) + 65536

\* C6: when the cluster holds a surrogate pair, the identifier has exactly one
\* segment for the pair, the lowercase hex of
\* (high - 0xD800) * 0x400 + (low - 0xDC00) + 0x10000, and no segment for the
\* high or the low surrogate on its own.
C6_PairIsOneSegment ==
    \A k \in 1..Len(enc.arg) :
        (EncReturned /\ OnePairAt(enc.arg, k)) =>
            /\ enc.ret.some
            /\ LET values == SegmentValues(enc.ret.val)
                   whole == (enc.arg[k] - 55296) * 1024 + (enc.arg[k + 1] - 56320) + 65536
               IN  /\ Cardinality({j \in 1..Len(values) : values[j] = whole}) = 1
                   /\ \A j \in 1..Len(values) : values[j] \notin {enc.arg[k], enc.arg[k + 1]}

\* C7: for a cluster without surrogate code units the encoder returns the
\* lowercase hex of each code point other than U+200D and U+FE0F, in the
\* original order, joined by '-'; no segment is '200d' or 'fe0f'; a cluster made
\* only of U+200D / U+FE0F yields None, never an empty string.
C7_HexOfSignificantCodePoints ==
    (EncReturned /\ \A k \in 1..Len(enc.arg) : ~IsSurrogate(enc.arg[k])) =>
        LET significant == SelectSeq(enc.arg, IsSignificant) IN
        /\ enc.ret # Some(<<>>)
        /\ significant = <<>> => enc.ret = None
        /\ significant # <<>> =>
             /\ enc.ret.some
             /\ SegmentValues(enc.ret.val) = significant
             /\ \A j \in 1..Len(Split(enc.ret.val)) :
                  Split(enc.ret.val)[j] \notin {<<50, 48, 48, 100>>, <<102, 101, 48, 102>>}

\* a two-code-point ZWJ sequence U+1F600 U+200D U+2764 has been encoded as 1f600-2764
C7_Witness ==
    /\ EncReturned
    /\ enc.arg = <<128512, 8205, 10084>>
    /\ enc.ret = Some(<<49, 102, 54, 48, 48, 45, 50, 55, 54, 52>>)

(***************************************************************************)
(* Properties of the candidate list, under Spec.                           *)
(***************************************************************************)
\* the catalog URL of revision rev with x in the {hex1} places and y in {hex2}:
\* https://www.gstatic.com/android/keyboard/emojikitchen/<rev>/u<x>/u<x>_u<y>.png
CatalogUrl(rev, x, y) ==
    UrlHead \o rev \o <<47, 117>> \o x \o <<47, 117>> \o x \o <<95, 117>> \o y
            \o <<46, 112, 110, 103>>

\* _find got past the encoders under the default template
Generated ==
    /\ mix.called
    /\ Truthy(mix.hex1)
    /\ Truthy(mix.hex2)
    /\ config.base_url_template = DEFAULT_BASE_URL_TEMPLATE

\* per revision (a,b), and (b,a) too when a # b
RECURSIVE BothOrderUrls(_, _, _)
BothOrderUrls(revs, a, b) ==
    IF revs = <<>> THEN <<>>
    ELSE (IF a = b THEN <<CatalogUrl(Head(revs), a, b)>>
          ELSE <<CatalogUrl(Head(revs), a, b), CatalogUrl(Head(revs), b, a)>>)
         \o BothOrderUrls(Tail(revs), a, b)

\* C1 as stated: for every revision in configuration order the (a,b) URL is
\* emitted and the (b,a) URL is additionally emitted iff a # b (4 URLs for two
\* revisions and distinct identifiers, 2 for equal ones).
C1_BothOrdersPerRevision ==
    Generated =>
        mix.urls_to_check = BothOrderUrls(config.date_codes, mix.hex1.val, mix.hex2.val)

\* C1 amended: exactly one URL per revision, in configuration order: (b,a) when
\* a is greater than b as a string, (a,b) otherwise; the other order is never
\* emitted.
C1_OneUrlPerRevision ==
    Generated =>
        LET a == mix.hex1.val
            b == mix.hex2.val
            x == IF StrGT(a, b) THEN b ELSE a
            y == IF StrGT(a, b) THEN a ELSE b
        IN  /\ Len(mix.urls_to_check) = Len(config.date_codes)
            /\ \A k \in 1..Len(config.date_codes) :
                 mix.urls_to_check[k] = CatalogUrl(config.date_codes[k], x, y)

\* two revisions, distinct identifiers with the first the greater string
C1_Witness ==
    /\ Generated
    /\ Len(config.date_codes) = 2
    /\ Len(mix.urls_to_check) = 2
    /\ mix.hex1 # mix.hex2
    /\ StrGT(mix.hex1.val, mix.hex2.val)

\* the code points of a cluster other than U+200D and U+FE0F
Significant(cluster) == SelectSeq(cluster, IsSignificant)

\* C10: for two distinct single-code-point identifiers every generated URL has
\* the numerically smaller code point in the {hex1} places and the other in
\* {hex2}, whatever the order typed and also for hex strings of different length.
C10_SmallerCodePointFirst ==
    (/\ Generated
     /\ Len(Significant(mix.emoji1)) = 1
     /\ Len(Significant(mix.emoji2)) = 1
     /\ Significant(mix.emoji1) # Significant(mix.emoji2)) =>
        LET c1 == Significant(mix.emoji1)[1]
            c2 == Significant(mix.emoji2)[1]
            lo == IF c1 < c2 THEN c1 ELSE c2
            hi == IF c1 < c2 THEN c2 ELSE c1
        IN  \A k \in 1..Len(mix.urls_to_check) :
                \E rev \in {config.date_codes[j] : j \in 1..Len(config.date_codes)} :
                    mix.urls_to_check[k] = CatalogUrl(rev, Hex(lo), Hex(hi))

(***************************************************************************)
(* Properties of the probing loop, under Spec.                             *)
(***************************************************************************)
History == probe.history

Transient(outcome) == outcome \in {"TimeoutError", "ClientError"}

Done == pc = "done"

\* C2: candidates are checked in generator order and the first one that answers
\* 200 is returned; once a candidate has answered 200 no further one is checked.
C2_FirstHitWins ==
    /\ \A k \in 1..Len(History) : History[k].idx = k
    /\ \A k \in 1..(Len(History) - 1) : History[k].status # 200
    /\ Truthy(mix.result_url) =>
         /\ History # <<>>
         /\ History[Len(History)].status = 200
         /\ mix.result_url.val = mix.urls_to_check[Len(History)]
    /\ (History # <<>> /\ History[Len(History)].status = 200) =>
         /\ Done
         /\ mix.result_url = Some(mix.urls_to_check[Len(History)])
         /\ event.results = <<Image(mix.urls_to_check[Len(History)])>>

\* the first of two candidates answered 200 and was returned; the second was
\* never asked
C2_Witness ==
    /\ Len(mix.urls_to_check) = 2
    /\ Len(History) = 1
    /\ History[1].status = 200
    /\ Done
    /\ mix.result_url = Some(mix.urls_to_check[1])

\* C3: a timeout or network error on a candidate does not end probing: no
\* candidate is checked twice, the next one is checked, and when every
\* candidate times out or fails transport the host gets the not-found notice,
\* as it does when every candidate answers a status other than 200.
C3_TransientErrorsSkip ==
    /\ \A j, k \in 1..Len(History) : j < k => History[j].idx # History[k].idx
    /\ \A k \in 1..Len(History) :
         (Transient(History[k].outcome) /\ History[k].idx < Len(mix.urls_to_check)) =>
             IF k < Len(History) THEN History[k + 1].idx = History[k].idx + 1
             ELSE pc = "probing" /\ probe.idx = History[k].idx + 1
    /\ (/\ mix.urls_to_check # <<>>
        /\ Len(History) = Len(mix.urls_to_check)
        /\ \/ \A k \in 1..Len(History) : Transient(History[k].outcome)
           \/ \A k \in 1..Len(History) : History[k].status \in HeadStatuses \ {200}) =>
         /\ Done
         /\ mix.result_url = None
         /\ event.results = <<Plain("not-found")>>

\* two candidates, one timed out and one failed transport: not found
C3_Witness ==
    /\ Len(mix.urls_to_check) = 2
    /\ Len(History) = 2
    /\ History[1].outcome = "TimeoutError"
    /\ History[2].outcome = "ClientError"
    /\ Done
    /\ event.results = <<Plain("not-found")>>

\* C4: every resolution ends in exactly one of Found(url) and NotFound and no
\* exception leaves _process_and_send_mix: an exception raised while building
\* URLs or probing becomes NotFound, and the host receives the image or the
\* not-found notice.
C4_NoExceptionEscapes ==
    /\ ~mix.escaped
    /\ (Done /\ mix.called) =>
         /\ mix.returned
         /\ Len(event.results) = 1
         /\ \/ /\ Truthy(mix.result_url)
               /\ event.results[1] = Image(mix.result_url.val)
               /\ mix.raised = "none"
            \/ /\ mix.result_url = None
               /\ event.results[1] = Plain("not-found")

\* an unexpected exception while probing the second candidate ended as not found
C4_Witness ==
    /\ Done
    /\ mix.raised = "RuntimeError"
    /\ Len(History) = 2
    /\ mix.result_url = None
    /\ event.results = <<Plain("not-found")>>

\* the configured template names a key format() is not given
UnknownKeyTemplate == config.base_url_template = TemplateWith(Field("revision"))

\* C8 as stated: with an unknown key in the template, construction fails before
\* any probe, and the failure is an operational error that the user is not
\* shown as the normal not-found result; the host does not crash.
C8_TemplateErrorNotShownAsNotFound ==
    (UnknownKeyTemplate /\ mix.raised = "KeyError") =>
        /\ History = <<>>
        /\ ~mix.escaped
        /\ "error:template" \in {mix.log[k] : k \in 1..Len(mix.log)}
        /\ Plain("not-found") \notin {event.results[k] : k \in 1..Len(event.results)}

\* C8 amended: with an unknown key in the template and a non-empty revision
\* list, construction fails with KeyError on the first revision, before any
\* probe; the error is logged, _find returns None and the user is shown the
\* same not-found notice as for a missing combination; the host does not crash.
C8_TemplateErrorIsNotFound ==
    (UnknownKeyTemplate /\ mix.called /\ Truthy(mix.hex1) /\ Truthy(mix.hex2)) =>
        /\ Done
        /\ History = <<>>
        /\ mix.urls_to_check = <<>>
        /\ ~mix.escaped
        /\ mix.result_url = None
        /\ event.results = <<Plain("not-found")>>
        /\ event.stopped
        /\ IF config.date_codes = <<>>
           THEN mix.raised = "none" /\ mix.log = <<>>
           ELSE mix.raised = "KeyError" /\ mix.log = <<"error:template">>

\* a command with two emoji met the unknown key
C8_Witness ==
    /\ UnknownKeyTemplate
    /\ event.handler = "command"
    /\ mix.raised = "KeyError"
    /\ event.results = <<Plain("not-found")>>

(***************************************************************************)
(* Properties of the handlers, under Spec.                                 *)
(***************************************************************************)
RECURSIVE TotalLen(_)
TotalLen(ss) == IF ss = <<>> THEN 0 ELSE Len(Head(ss)) + TotalLen(Tail(ss))

NonSpace(c) == ~IsSpace(c)

\* some character of text is neither whitespace nor part of an extracted cluster
HasExtraneousText(text, emojis) == Len(SelectSeq(text, NonSpace)) > TotalLen(emojis)

Handled(handler) == event.handler = handler /\ pc # "idle"

\* C5 as stated: whenever the clusters do not consume the whole non-whitespace
\* content, the command reports extraneous-text, whatever the number of clusters.
C5_ExtraneousTextAnyCount ==
    (Handled("command") /\ HasExtraneousText(event.input_text, event.emojis)) =>
        event.results = <<Plain("extraneous-text")>>

\* C5 amended: the number of clusters is decided first; text left over is
\* reported as extraneous-text only with exactly two clusters, one cluster gives
\* need-two-emoji, three or more too-many-emoji, none the no-emoji notice.
C5_ExtraneousTextOnlyForTwo ==
    (Handled("command") /\ HasExtraneousText(event.input_text, event.emojis)) =>
        /\ Done
        /\ event.stopped
        /\ ~mix.called
        /\ event.results =
             <<Plain(CASE Len(event.emojis) = 0 -> "no-emoji"
                       [] Len(event.emojis) = 1 -> "need-two-emoji"
                       [] Len(event.emojis) = 2 -> "extraneous-text"
                       [] OTHER -> "too-many-emoji")>>

\* three emoji plus a letter: too-many-emoji
C5_Witness ==
    /\ Handled("command")
    /\ Len(event.emojis) = 3
    /\ HasExtraneousText(event.input_text, event.emojis)
    /\ event.results = <<Plain("too-many-emoji")>>

\* the message is two emoji and whitespace
TwoEmojiOnly(text, emojis) == Len(emojis) = 2 /\ ~HasExtraneousText(text, emojis)

\* C9 as stated: with the auto-trigger flag disabled an ordinary message never
\* causes a resolution, a probe, a reply or a stop of event propagation.
C9_DisabledFlagSilences ==
    (~config.auto_trigger /\ event.handler = "message") =>
        /\ ~mix.called
        /\ History = <<>>
        /\ event.results = <<>>
        /\ ~event.stopped

\* C9 amended: no flag governs the automatic handler: a message of exactly two
\* emoji always causes a resolution, one reply and a stop of event propagation,
\* whatever auto_trigger says; any other message causes none of them.
C9_AutoTriggerUnconditional ==
    (Handled("message") /\ Done) =>
        IF TwoEmojiOnly(event.input_text, event.emojis)
        THEN mix.called /\ Len(event.results) = 1 /\ event.stopped
        ELSE ~mix.called /\ event.results = <<>> /\ ~event.stopped

\* with the flag disabled a two-emoji message was resolved and answered
C9_Witness ==
    /\ ~config.auto_trigger
    /\ Handled("message")
    /\ Done
    /\ mix.called
    /\ Len(event.results) = 1
    /\ event.stopped

====
